---- MODULE Spec2Model ----
(***************************************************************************)
(* Numerical kernel of the Exoplanet Workshop activities:                  *)
(*   Activity 1  kepler22_lab.py        Kepler_Tool (transit model, fit)   *)
(*   Activity 2  trappist_detective.py  TRAPPISTMission (phase folding)    *)
(*   Activity 3  trappist_habitable.py  TRAPPISTHabitable (habitability)   *)
(* The three files are separate programs; a behaviour runs one of them, or *)
(* calls _transit_model or _calculate_habitability_score directly.         *)
(*                                                                         *)
(* Numbers.  A float is modelled by an exact rational <<n, d>> in lowest   *)
(* terms with d > 0; <<0, 0>> is NaN.  Comparisons with NaN are false and  *)
(* arithmetic on NaN gives NaN, as in IEEE 754.  Under Spec the operations *)
(* + - * / are exact and only sqrt and exp are rounded.  SpecFP runs the   *)
(* fold expression (time % period) / period in binary floating point with  *)
(* MantBits significant bits, every inexact result rounded to nearest,     *)
(* ties to even.                                                           *)
(***************************************************************************)
EXTENDS Integers, Sequences, FiniteSets, TLC

VARIABLES
    activity,        \* which program / usage this behaviour runs
    file_time,       \* column 0 of the data file on disk (days)
    file_flux,       \* column 1 of the data file on disk (normalized flux)
    \* Kepler_Tool.interactive_fit(time, flux) and its update_fit callback
    k_widget,        \* TRUE once interactive_fit has built the sliders
    k_time, k_flux,  \* the arrays captured by the update_fit closure
    planet_size, orbital_period, orbital_speed,   \* current slider values
    model_flux, rms_error, score,                 \* results of the last update_fit
    \* a direct call of Kepler_Tool._transit_model
    tm_args,         \* <<time, planet_size, orbital_period, impact_parameter>>
    tm_flux,         \* the flux array it returned
    \* a call of interactive_fit(time, flux) on arrays of the caller's making
    sc_args,         \* <<time, flux>>
    sc_error,        \* the exception line 203 raised, "" when it raised none
    sc_rms,          \* rms_error of line 204
    sc_score,        \* score of line 206
    \* TRAPPISTMission
    m_none,          \* TRUE while self.time / self.flux are None
    m_time, m_flux,  \* self.time, self.flux
    m_period,        \* argument of the last fold_at_period call
    m_phase,         \* the phase array it returned (<<>> when it returned None)
    m_mask,          \* transit_mask of the last step3_remove_planet call
    m_ret,           \* what the last load_data call returned ("" before any)
    m_drawn,         \* the figure the most recent call drew ("" when none)
    \* TRAPPISTHabitable
    h_time, h_flux,  \* self.time, self.flux (empty arrays when loading failed)
    h_period,        \* argument of the last fold_at_period call
    h_phase,         \* the phase array it plotted (<<>> when it refused)
    hab_temp,        \* argument of the last _calculate_habitability_score call
    hab_branch,      \* value of `score` before the final max/min (lines 633-638)
    hab_score,       \* value returned by the last call (line 640)
    h_ret,           \* what the last load_data call returned ("" before any)
    h_drawn,         \* what the most recent call drew or wrote ("" when nothing)
    h_labels,        \* the labels of the last dashboard's score bars (d, e, f)
    h_report         \* the assessments in the last report written (d, e, f)

kvars == <<k_widget, k_time, k_flux, planet_size, orbital_period, orbital_speed,
           model_flux, rms_error, score>>
tvars == <<tm_args, tm_flux>>
svars == <<sc_args, sc_error, sc_rms, sc_score>>
mvars == <<m_none, m_time, m_flux, m_period, m_phase, m_mask, m_ret, m_drawn>>
hvars == <<h_time, h_flux, h_period, h_phase, hab_temp, hab_branch, hab_score,
           h_ret, h_drawn, h_labels, h_report>>
envvars == <<activity, file_time, file_flux>>

vars == <<envvars, kvars, tvars, svars, mvars, hvars>>

---------------------------------------------------------------------------
(* Rational arithmetic *)

IAbs(n) == IF n < 0 THEN -n ELSE n

RECURSIVE GCD(_, _)
GCD(a, b) == IF b = 0 THEN a ELSE GCD(b, a % b)

NaN == <<0, 0>>

IsNaN(x) == x[2] = 0

\* the rational n/d (d # 0) in lowest terms
R(n, d) ==
    LET g == GCD(IAbs(n), IAbs(d))
        s == IF d < 0 THEN -1 ELSE 1
    IN  <<(s * n) \div g, (s * d) \div g>>

Zero == <<0, 1>>
One == <<1, 1>>

RNeg(a) == IF IsNaN(a) THEN NaN ELSE <<-a[1], a[2]>>

RAbs(a) == IF IsNaN(a) THEN NaN ELSE <<IAbs(a[1]), a[2]>>

RAdd(a, b) ==
    IF IsNaN(a) \/ IsNaN(b) THEN NaN
    ELSE LET g == GCD(a[2], b[2])
         IN  R(a[1] * (b[2] \div g) + b[1] * (a[2] \div g), (a[2] \div g) * b[2])

RSub(a, b) == RAdd(a, RNeg(b))

RMul(a, b) ==
    IF IsNaN(a) \/ IsNaN(b) THEN NaN
    ELSE LET g1 == GCD(IAbs(a[1]), b[2])
             g2 == GCD(IAbs(b[1]), a[2])
         IN  R((a[1] \div g1) * (b[1] \div g2), (a[2] \div g2) * (b[2] \div g1))

\* x / 0 is NaN here: the only zero divisors the programs meet divide a NaN
\* (time % 0) or an empty selection
RDiv(a, b) ==
    IF IsNaN(a) \/ IsNaN(b) \/ b[1] = 0 THEN NaN
    ELSE RMul(a, IF b[1] < 0 THEN <<-b[2], -b[1]>> ELSE <<b[2], b[1]>>)

\* the comparisons cross-multiply after cancelling the denominators' common factor
RLt(a, b) ==
    /\ ~IsNaN(a) /\ ~IsNaN(b)
    /\ LET g == GCD(a[2], b[2])
       IN  a[1] * (b[2] \div g) < b[1] * (a[2] \div g)

RLe(a, b) ==
    /\ ~IsNaN(a) /\ ~IsNaN(b)
    /\ LET g == GCD(a[2], b[2])
       IN  a[1] * (b[2] \div g) <= b[1] * (a[2] \div g)

\* Python's builtin min(a, b) and max(a, b) on two arguments
PyMin(a, b) == IF RLt(b, a) THEN b ELSE a

PyMax(a, b) == IF RLt(a, b) THEN b ELSE a

---------------------------------------------------------------------------
(* Bounds and input sets *)

MaxLen == 3         \* longest data file / time array (rows)
MaxTime == 3        \* generic times range over [-MaxTime/TimeDen, MaxTime/TimeDen]
TimeDen == 2        \* ... in steps of 1/TimeDen day
MaxTemp == 130      \* temperatures range over [-MaxTemp, MaxTemp] ...
TempDen == 2        \* ... in steps of 1/TempDen degree
SqrtBits == 6       \* np.sqrt is rounded down to a multiple of 1/(100 * 2^SqrtBits)
MantBits == 4       \* significant bits of a float under SpecFP
MaxShift == 3       \* whole periods a time is shifted by, either way
MaxOffset == 8      \* uniform flux offsets range over [-MaxOffset, MaxOffset] / 3200
MaxCycles == 2      \* cycles of the 4.05-day period in the quarter-period series

Activities == {"fit", "model", "scorer", "detective", "habitable", "habscore"}

\* strictly increasing sequences of length n over the set S of rationals
IncSeqs(S, n) ==
    {s \in [1..n -> S] : \A i \in 1..(n - 1) : s[i][1] * s[i + 1][2] < s[i + 1][1] * s[i][2]}

TimeGrid == {R(n, TimeDen) : n \in (-MaxTime)..MaxTime}

\* times (days) around the transits of a 250-day orbit, as in the Kepler-22b file
KeplerTimes == {R(125, 1), R(133, 1), R(141, 1), R(385, 1)}

FluxValues == {One, R(399, 400), R(1597, 1600)}

DipValues == {One, R(199, 200)}

\* the values the three sliders of interactive_fit can take (a subset of
\* min..max in steps of `step`, lines 177-194)
SizeSlider == {R(1, 40), R(1, 20)}
PeriodSlider == {R(250, 1), R(260, 1), R(350, 1)}
SpeedSlider == {R(1, 2), R(4, 1), R(8, 1)}

\* arguments of a direct _transit_model call
ModelSizes == {Zero, R(1, 10), R(1, 2), R(9, 10)}
ModelPeriods == {R(3, 1), R(3, 2), R(81, 20), Zero, R(-2, 1)}
ModelWidths == {R(10, 1), R(25, 1), R(250, 9), R(100, 3), R(60, 1), Zero, R(-5, 1)}

\* a time inside the transit of TRAPPIST-1b: phase 75/151 at 1.51 days
MidTransit == R(3, 4)

\* the time column of the TRAPPIST-1 files: days from a reference epoch
MissionTimes == {R(n, 1) : n \in (-1)..(MaxTime - 1)} \cup {MidTransit}

\* times at 0, 1/4, 1/2 and 3/4 of a 4.05-day period, over c cycles
CycleTimes(c) == [k \in 1..(4 * c) |-> R((k - 1) * 81, 80)]

\* periods a student passes to fold_at_period
FoldPeriods == {R(151, 100), R(121, 50), R(3, 1), R(1, 2), Zero, R(-3, 2)}

Temperatures ==
    {R(n, TempDen) : n \in (-MaxTemp * TempDen)..(MaxTemp * TempDen)}
        \cup {R(1000, 1), R(-1000, 1)}

---------------------------------------------------------------------------
(* numpy primitives *)

\* C fmod(a, b), b # 0: a - b * trunc(a / b), the sign of a
fmod(a, b) ==
    LET q == (IAbs(a[1]) * b[2]) \div (a[2] * IAbs(b[1]))      \* trunc(|a| / |b|)
        m == RSub(RAbs(a), RMul(<<q, 1>>, RAbs(b)))
    IN  IF a[1] < 0 THEN RNeg(m) ELSE m

\* mutant: the remainder keeps the sign of the dividend, as C's fmod does
remainder_sign_of_dividend(a, b) ==
    IF IsNaN(a) \/ IsNaN(b) \/ b[1] = 0 THEN NaN ELSE fmod(a, b)

\* a % b on float arrays (np.remainder): fmod, then moved to the sign of b;
\* a % 0 is nan
np_remainder(a, b) ==
    IF IsNaN(a) \/ IsNaN(b) \/ b[1] = 0 THEN NaN
    ELSE LET mod == fmod(a, b)
         IN  IF mod[1] # 0 /\ ((b[1] < 0) # (mod[1] < 0)) THEN RAdd(mod, b) ELSE mod

np_any(mask) == \E i \in DOMAIN mask : mask[i]

\* a - b on arrays: equal shapes, or one of them of length 1 stretched to the
\* other (broadcasting); any other pair of shapes raises ValueError
np_broadcastable(a, b) == Len(a) = Len(b) \/ Len(a) = 1 \/ Len(b) = 1

np_subtract(a, b) ==
    [i \in 1..(IF Len(a) = 1 THEN Len(b) ELSE Len(a)) |->
        RSub(IF Len(a) = 1 THEN a[1] ELSE a[i], IF Len(b) = 1 THEN b[1] ELSE b[i])]

RECURSIVE SumSeq(_, _)
SumSeq(s, n) == IF n = 0 THEN Zero ELSE RAdd(SumSeq(s, n - 1), s[n])

\* np.mean; nan for an empty array
np_mean(s) == IF Len(s) = 0 THEN NaN ELSE RDiv(SumSeq(s, Len(s)), <<Len(s), 1>>)

RECURSIVE Pow2(_)
Pow2(n) == IF n = 0 THEN 1 ELSE 2 * Pow2(n - 1)

RECURSIVE ISqrtIn(_, _, _)
ISqrtIn(n, lo, hi) ==
    IF lo = hi THEN lo
    ELSE LET mid == (lo + hi + 1) \div 2
         IN  IF mid * mid <= n THEN ISqrtIn(n, mid, hi) ELSE ISqrtIn(n, lo, mid - 1)

\* floor of the square root of a natural number
ISqrt(n) == ISqrtIn(n, 0, IF n < 46340 THEN n ELSE 46340)

\* np.sqrt: nan for a negative argument; the root is rounded down to a
\* multiple of 1 / (100 * 2^SqrtBits)
np_sqrt(x) ==
    IF IsNaN(x) \/ x[1] < 0 THEN NaN
    ELSE LET grid == 100 * Pow2(SqrtBits)
             g == GCD(grid * grid, x[2])
         IN  R(ISqrt((x[1] * ((grid * grid) \div g)) \div (x[2] \div g)), grid)

\* one multiplication by e^(-1/32) = 31760 * 2^-15, rounded down
ExpStep(v) == (v * 31760) \div 32768

\* v * e^(-n/32) in units of 2^-15, every product rounded down; it
\* underflows to 0 (the steps are taken eight at a time)
RECURSIVE ExpIter(_, _)
ExpIter(v, n) ==
    IF n = 0 \/ v = 0 THEN v
    ELSE IF n >= 8
    THEN ExpIter(ExpStep(ExpStep(ExpStep(ExpStep(ExpStep(ExpStep(ExpStep(ExpStep(v)))))))),
                 n - 8)
    ELSE ExpIter(ExpStep(v), n - 1)

ExpNeg32(n) == IF n > 400 THEN 0 ELSE ExpIter(32768, n)

\* np.exp for x <= 0 (the only sign update_fit passes): x is rounded up to a
\* multiple of 1/32
np_exp(x) ==
    IF IsNaN(x) \/ x[1] > 0 THEN NaN
    ELSE R(ExpNeg32((IAbs(x[1]) * 32) \div x[2]), 32768)

\* np.clip(x, lo, hi) = minimum(maximum(x, lo), hi); nan stays nan
np_clip(x, lo, hi) ==
    IF IsNaN(x) THEN NaN
    ELSE LET up == IF RLt(x, lo) THEN lo ELSE x
         IN  IF RLt(hi, up) THEN hi ELSE up

---------------------------------------------------------------------------
(* Phase folding: (time % period) / period, the same expression in          *)
(* TRAPPISTMission.fold_at_period, TRAPPISTHabitable.fold_at_period and     *)
(* Kepler_Tool._transit_model                                              *)

fold_one(t, period) == RDiv(np_remainder(t, period), period)

fold(time, period) == [i \in DOMAIN time |-> fold_one(time[i], period)]

\* the same expression in binary floating point: fmod is exact, the sum
\* mod + b and the quotient are rounded to MantBits significant bits

\* a rational m >= 0 rounded to the nearest integer, ties to even
RoundHalfEven(m) ==
    LET f == m[1] \div m[2]
        r2 == 2 * (m[1] - f * m[2])
    IN  IF r2 < m[2] THEN f
        ELSE IF r2 > m[2] THEN f + 1
        ELSE IF f % 2 = 0 THEN f ELSE f + 1

\* a > 0 rounded to MantBits significant bits; q is the trial quantum (a power of 2)
RECURSIVE FpRoundPos(_, _)
FpRoundPos(a, q) ==
    LET m == RDiv(a, q)
    IN  IF RLt(m, <<Pow2(MantBits - 1), 1>>) THEN FpRoundPos(a, RDiv(q, <<2, 1>>))
        ELSE IF RLe(<<Pow2(MantBits), 1>>, m) THEN FpRoundPos(a, RMul(q, <<2, 1>>))
        ELSE RMul(<<RoundHalfEven(m), 1>>, q)

fp_round(x) ==
    IF IsNaN(x) \/ x[1] = 0 THEN x
    ELSE IF x[1] < 0 THEN RNeg(FpRoundPos(RNeg(x), One))
    ELSE FpRoundPos(x, One)

fp_remainder(a, b) ==
    IF IsNaN(a) \/ IsNaN(b) \/ b[1] = 0 THEN NaN
    ELSE LET mod == fmod(a, b)
         IN  IF mod[1] # 0 /\ ((b[1] < 0) # (mod[1] < 0)) THEN fp_round(RAdd(mod, b))
             ELSE mod

fp_fold_one(t, period) == fp_round(RDiv(fp_remainder(t, period), period))

fp_fold(time, period) == [i \in DOMAIN time |-> fp_fold_one(time[i], period)]

\* floats with at most MantBits significant bits, and arrays of them
FpTimes == {R(-1, 64), R(-1, 16), R(-1, 2), Zero, R(1, 2), R(3, 4), R(3, 2), R(5, 2)}

FpPeriods == {One, R(3, 2), R(3, 1), R(1, 2)}

---------------------------------------------------------------------------
(* Activity 1: Kepler_Tool *)

\* mutant: the depth taken as the radius ratio itself, not its square
transit_depth_linear(size) == size

\* line 72
transit_depth(size) == RMul(size, size)

\* mutant: the division by 10 is left out
transit_duration_undivided(impact_parameter) ==
    RMul(R(1, 10), impact_parameter)

\* line 73
transit_duration_of(impact_parameter) ==
    RMul(R(1, 10), RDiv(impact_parameter, R(10, 1)))

\* mutant: the edge distance is measured from the transit centre
edge_distance_from_centre(d, transit_duration) ==
    RDiv(d, RMul(transit_duration, R(2, 5)))

\* line 92
edge_distance_of(d, transit_duration) ==
    RDiv(RSub(d, RMul(transit_duration, R(3, 5))), RMul(transit_duration, R(2, 5)))

\* mutant: the taper is linear in the edge distance
transit_flux_linear_taper(d, depth, transit_duration, any_in) ==
    LET mid == RMul(transit_duration, R(3, 5))
        edge_distance == edge_distance_of(d, transit_duration)
    IN  IF ~any_in THEN One
        ELSE IF RLt(d, mid) THEN RSub(One, depth)
        ELSE IF RLt(d, transit_duration)
        THEN RSub(One, RMul(depth, RSub(One, edge_distance)))
        ELSE One

\* mutant: the flat bottom is set to the depth itself
transit_flux_bottom_is_depth(d, depth, transit_duration, any_in) ==
    LET mid == RMul(transit_duration, R(3, 5))
        edge_distance == edge_distance_of(d, transit_duration)
    IN  IF ~any_in THEN One
        ELSE IF RLt(d, mid) THEN depth
        ELSE IF RLt(d, transit_duration)
        THEN RSub(One, RMul(depth, RSub(One, RMul(edge_distance, edge_distance))))
        ELSE One

\* flux of one sample at distance d from the transit centre (lines 83-93);
\* any_in is np.any(in_transit) over the whole array
transit_flux(d, depth, transit_duration, any_in) ==
    LET mid == RMul(transit_duration, R(3, 5))          \* transit_duration * 0.6
        edge_distance == edge_distance_of(d, transit_duration)
    IN  IF ~any_in THEN One
        ELSE IF RLt(d, mid) THEN RSub(One, depth)
        ELSE IF RLt(d, transit_duration)
        THEN RSub(One, RMul(depth, RSub(One, RMul(edge_distance, edge_distance))))
        ELSE One

transit_model(time, size, period, impact_parameter) ==
    LET phase == fold(time, period)
        depth == transit_depth(size)
        transit_duration == transit_duration_of(impact_parameter)
        distance_from_center == [i \in DOMAIN time |-> RAbs(RSub(phase[i], R(1, 2)))]
        in_transit == [i \in DOMAIN time |-> RLt(distance_from_center[i], transit_duration)]
    IN  [i \in DOMAIN time |->
            transit_flux(distance_from_center[i], depth, transit_duration,
                         np_any(in_transit))]

\* mutant: the residuals are averaged without being squared
fit_rms_mean_residual(flux, mflux) ==
    np_mean([i \in DOMAIN flux |-> RSub(flux[i], mflux[i])])

\* mutant: the model is added to the data instead of subtracted
fit_rms_sum(flux, mflux) ==
    LET residuals == [i \in DOMAIN flux |-> RAdd(flux[i], mflux[i])]
    IN  np_sqrt(np_mean([i \in DOMAIN flux |-> RMul(residuals[i], residuals[i])]))

\* lines 203-204
fit_rms(flux, mflux) ==
    LET residuals == np_subtract(flux, mflux)
    IN  np_sqrt(np_mean([i \in DOMAIN residuals |-> RMul(residuals[i], residuals[i])]))

\* mutant: the scale is inverted, 100 * (1 - exp(-rms * 1000))
fit_score_inverted(rms) ==
    np_clip(RMul(R(100, 1), RSub(One, np_exp(RMul(RNeg(rms), R(1000, 1))))),
            Zero, R(100, 1))

\* lines 205-206
fit_score(rms) ==
    np_clip(RMul(R(100, 1), np_exp(RMul(RNeg(rms), R(1000, 1)))), Zero, R(100, 1))

\* mutant: the model is synthesized with the period of the previous call
update_fit_stale_period(size, period, speed) ==
    /\ planet_size' = size
    /\ orbital_period' = period
    /\ orbital_speed' = speed
    /\ model_flux' = transit_model(k_time', size,
                                   IF IsNaN(orbital_period) THEN period ELSE orbital_period,
                                   speed)
    /\ rms_error' = fit_rms(k_flux', model_flux')
    /\ score' = fit_score(rms_error')

\* the body of update_fit up to the score (lines 196-206)
update_fit(size, period, speed) ==
    /\ planet_size' = size
    /\ orbital_period' = period
    /\ orbital_speed' = speed
    /\ model_flux' = transit_model(k_time', size, period, speed)
    /\ rms_error' = fit_rms(k_flux', model_flux')
    /\ score' = fit_score(rms_error')

\* interactive_fit(time, flux) with the arrays load_data returned: interact()
\* builds the sliders and calls update_fit once with their initial values
InteractiveFit ==
    /\ activity = "fit"
    /\ ~k_widget
    /\ k_widget' = TRUE
    /\ k_time' = file_time
    /\ k_flux' = file_flux
    /\ update_fit(R(1, 20), R(260, 1), R(4, 1))
    /\ UNCHANGED <<envvars, svars, tvars, mvars, hvars>>

\* one slider is moved: interact() calls update_fit with the three current values
UpdateFit(size, period, speed) ==
    /\ activity = "fit"
    /\ k_widget
    /\ \/ size # planet_size /\ period = orbital_period /\ speed = orbital_speed
       \/ size = planet_size /\ period # orbital_period /\ speed = orbital_speed
       \/ size = planet_size /\ period = orbital_period /\ speed # orbital_speed
    /\ UNCHANGED <<k_widget, k_time, k_flux>>
    /\ update_fit(size, period, speed)
    /\ UNCHANGED <<envvars, svars, tvars, mvars, hvars>>

\* a direct call of _transit_model on the caller's time array (one per behaviour)
TransitModel(size, period, impact_parameter) ==
    /\ activity = "model"
    /\ tm_args = <<>>
    /\ tm_args' = <<file_time, size, period, impact_parameter>>
    /\ tm_flux' = transit_model(file_time, size, period, impact_parameter)
    /\ UNCHANGED <<envvars, svars, kvars, mvars, hvars>>

\* arrays a caller can hand to interactive_fit: nothing ties their lengths
ScoreTimes == UNION {IncSeqs(KeplerTimes, n) : n \in 0..MaxLen}

ScoreFluxes == UNION {[1..n -> DipValues] : n \in 0..MaxLen}

\* interactive_fit(time, flux) up to the score of the first update_fit, which
\* interact() runs with the sliders' initial values (lines 200-206); the
\* subtraction of line 203 raises ValueError on shapes it cannot broadcast
ScoreFit(time, flux) ==
    /\ activity = "scorer"
    /\ sc_args = <<>>
    /\ sc_args' = <<time, flux>>
    /\ LET mflux == transit_model(time, R(1, 20), R(260, 1), R(4, 1))
       IN  IF np_broadcastable(flux, mflux)
           THEN /\ sc_error' = ""
                /\ sc_rms' = fit_rms(flux, mflux)
                /\ sc_score' = fit_score(sc_rms')
           ELSE /\ sc_error' = "ValueError"
                /\ UNCHANGED <<sc_rms, sc_score>>
    /\ UNCHANGED <<envvars, kvars, tvars, mvars, hvars>>

---------------------------------------------------------------------------
(* Activity 2: TRAPPISTMission *)

\* load_data of a file that exists (lines 55-64)
Mission_load_data ==
    /\ activity = "detective"
    /\ m_none' = FALSE
    /\ m_time' = file_time
    /\ m_flux' = file_flux
    /\ m_ret' = "time, flux"
    /\ m_drawn' = ""
    /\ UNCHANGED <<m_period, m_phase, m_mask>>
    /\ UNCHANGED <<envvars, svars, kvars, tvars, hvars>>

\* mutant: a failed load forgets the data, as TRAPPISTHabitable.load_data does
Mission_load_data_not_found_discarding ==
    /\ activity = "detective"
    /\ m_ret' = "None, None"
    /\ m_drawn' = ""
    /\ m_none' = FALSE
    /\ m_time' = <<>>
    /\ m_flux' = <<>>
    /\ UNCHANGED <<m_period, m_phase, m_mask>>
    /\ UNCHANGED <<envvars, svars, kvars, tvars, hvars>>

\* load_data of a file that does not exist (lines 66-69): np.loadtxt raises
\* before line 58, the handler prints and returns (None, None)
Mission_load_data_not_found ==
    /\ activity = "detective"
    /\ m_ret' = "None, None"
    /\ m_drawn' = ""
    /\ UNCHANGED <<m_none, m_time, m_flux, m_period, m_phase, m_mask>>
    /\ UNCHANGED <<envvars, svars, kvars, tvars, hvars>>

\* fold_at_period (lines 75-131): the guard of lines 86-88, then the phase of
\* line 94 and its scatter plot
Mission_fold_at_period(period) ==
    /\ activity = "detective"
    /\ m_period' = period
    /\ m_phase' = IF m_none THEN <<>> ELSE fold(m_time, period)
    /\ m_drawn' = IF m_none THEN "" ELSE "fold_at_period"
    /\ UNCHANGED <<m_none, m_time, m_flux, m_mask, m_ret>>
    /\ UNCHANGED <<envvars, svars, kvars, tvars, hvars>>

\* step1_view_data (lines 137-162): the guard, then the plot of the raw series
Mission_step1_view_data ==
    /\ activity = "detective"
    /\ m_drawn' = IF m_none THEN "" ELSE "step1_view_data"
    /\ UNCHANGED <<m_none, m_time, m_flux, m_period, m_phase, m_mask, m_ret>>
    /\ UNCHANGED <<envvars, svars, kvars, tvars, hvars>>

\* step2_fold_first_planet (lines 164-175): a banner, then fold_at_period(1.51)
Mission_step2_fold_first_planet ==
    /\ activity = "detective"
    /\ m_period' = R(151, 100)
    /\ m_phase' = IF m_none THEN <<>> ELSE fold(m_time, R(151, 100))
    /\ m_drawn' = IF m_none THEN "" ELSE "fold_at_period"
    /\ UNCHANGED <<m_none, m_time, m_flux, m_mask, m_ret>>
    /\ UNCHANGED <<envvars, svars, kvars, tvars, hvars>>

\* the elements of s at the indices where keep is TRUE
RECURSIVE Compress(_, _, _)
Compress(s, keep, n) ==
    IF n = 0 THEN <<>>
    ELSE IF keep[n] THEN Append(Compress(s, keep, n - 1), s[n])
    ELSE Compress(s, keep, n - 1)

\* mutant: the masked points are taken out of self.time and self.flux
Mission_step3_removing ==
    /\ activity = "detective"
    /\ m_mask' = IF m_none THEN <<>>
                 ELSE LET phase == fold(m_time, R(151, 100))
                      IN  [i \in DOMAIN m_time |->
                              RLt(R(9, 20), phase[i]) /\ RLt(phase[i], R(11, 20))]
    /\ m_time' = IF m_none THEN m_time
                 ELSE Compress(m_time, [i \in DOMAIN m_time |-> ~m_mask'[i]], Len(m_time))
    /\ m_flux' = IF m_none THEN m_flux
                 ELSE Compress(m_flux, [i \in DOMAIN m_flux |-> ~m_mask'[i]], Len(m_flux))
    /\ m_drawn' = IF m_none THEN "" ELSE "step3_remove_planet"
    /\ UNCHANGED <<m_none, m_period, m_phase, m_ret>>
    /\ UNCHANGED <<envvars, svars, kvars, tvars, hvars>>

\* step3_remove_planet (lines 177-207): the guard, then the phase at 1.51 days
\* and the mask of the points it draws in red; self.time and self.flux are
\* only read
Mission_step3_remove_planet ==
    /\ activity = "detective"
    /\ m_mask' = IF m_none THEN <<>>
                 ELSE LET phase == fold(m_time, R(151, 100))
                      IN  [i \in DOMAIN m_time |->
                              RLt(R(9, 20), phase[i]) /\ RLt(phase[i], R(11, 20))]
    /\ m_drawn' = IF m_none THEN "" ELSE "step3_remove_planet"
    /\ UNCHANGED <<m_none, m_time, m_flux, m_period, m_phase, m_ret>>
    /\ UNCHANGED <<envvars, svars, kvars, tvars, hvars>>

\* step4_find_second_planet (lines 209-223): a banner, then fold_at_period(2.42)
Mission_step4_find_second_planet ==
    /\ activity = "detective"
    /\ m_period' = R(121, 50)
    /\ m_phase' = IF m_none THEN <<>> ELSE fold(m_time, R(121, 50))
    /\ m_drawn' = IF m_none THEN "" ELSE "fold_at_period"
    /\ UNCHANGED <<m_none, m_time, m_flux, m_mask, m_ret>>
    /\ UNCHANGED <<envvars, svars, kvars, tvars, hvars>>

\* fold_at_period with the arithmetic of line 94 in floating point
Mission_fold_at_period_fp(period) ==
    /\ activity = "detective"
    /\ m_period' = period
    /\ m_phase' = IF m_none THEN <<>> ELSE fp_fold(m_time, period)
    /\ m_drawn' = IF m_none THEN "" ELSE "fold_at_period"
    /\ UNCHANGED <<m_none, m_time, m_flux, m_mask, m_ret>>
    /\ UNCHANGED <<envvars, svars, kvars, tvars, hvars>>

---------------------------------------------------------------------------
(* Activity 3: TRAPPISTHabitable *)

\* mutant: _has_data without the emptiness test of lines 525-527
has_data_not_none(time, flux) == TRUE

\* _has_data (lines 520-528); the arrays are never None after __init__
has_data(time, flux) == Len(time) # 0 /\ Len(flux) # 0

\* mutant: a failed load keeps the arrays, as TRAPPISTMission.load_data does
Habitable_load_data_keeping(found) ==
    /\ activity = "habitable"
    /\ h_time' = IF found THEN file_time ELSE h_time
    /\ h_flux' = IF found THEN file_flux ELSE h_flux
    /\ h_ret' = IF found /\ Len(file_time) > 0 THEN "True" ELSE "False"
    /\ h_drawn' = ""
    /\ UNCHANGED <<h_period, h_phase, hab_temp, hab_branch, hab_score, h_labels, h_report>>
    /\ UNCHANGED <<envvars, svars, kvars, tvars, mvars>>

\* load_data(filename): the arrays of the file, or two empty arrays when no
\* candidate path exists (lines 62-107); the result is len(self.time) > 0
Habitable_load_data(found) ==
    /\ activity = "habitable"
    /\ h_time' = IF found THEN file_time ELSE <<>>
    /\ h_flux' = IF found THEN file_flux ELSE <<>>
    /\ h_ret' = IF Len(h_time') > 0 THEN "True" ELSE "False"
    /\ h_drawn' = ""
    /\ UNCHANGED <<h_period, h_phase, hab_temp, hab_branch, hab_score, h_labels, h_report>>
    /\ UNCHANGED <<envvars, svars, kvars, tvars, mvars>>

\* fold_at_period (lines 296-337): the guard, then the phase and its plot
Habitable_fold_at_period(period) ==
    /\ activity = "habitable"
    /\ h_period' = period
    /\ h_phase' = IF has_data(h_time, h_flux) THEN fold(h_time, period) ELSE <<>>
    /\ h_drawn' = IF has_data(h_time, h_flux) THEN "fold_at_period" ELSE ""
    /\ UNCHANGED <<h_time, h_flux, hab_temp, hab_branch, hab_score, h_ret, h_labels, h_report>>
    /\ UNCHANGED <<envvars, svars, kvars, tvars, mvars>>

\* visualize_data (lines 113-139): the guard, then the plot of the series
Habitable_visualize_data ==
    /\ activity = "habitable"
    /\ h_drawn' = IF has_data(h_time, h_flux) THEN "visualize_data" ELSE ""
    /\ UNCHANGED <<h_time, h_flux, h_period, h_phase, hab_temp, hab_branch, hab_score,
                   h_ret, h_labels, h_report>>
    /\ UNCHANGED <<envvars, svars, kvars, tvars, mvars>>

\* find_habitable_periods (lines 141-185): the guard, then the period chart
Habitable_find_habitable_periods ==
    /\ activity = "habitable"
    /\ h_drawn' = IF has_data(h_time, h_flux) THEN "find_habitable_periods" ELSE ""
    /\ UNCHANGED <<h_time, h_flux, h_period, h_phase, hab_temp, hab_branch, hab_score,
                   h_ret, h_labels, h_report>>
    /\ UNCHANGED <<envvars, svars, kvars, tvars, mvars>>

\* mutant: the distance is taken from 0 C, not from 15 C
habitability_branch_from_zero(temp) ==
    IF RLe(R(-20, 1), temp) /\ RLe(temp, R(50, 1))
    THEN RSub(One, RDiv(RAbs(temp), R(65, 1)))
    ELSE IF RLe(R(-50, 1), temp) /\ RLt(temp, R(-20, 1))
    THEN RSub(R(3, 5), RDiv(RSub(RAbs(temp), R(20, 1)), R(150, 1)))
    ELSE R(3, 10)

\* mutant: the marginal band reaches down to -100 C
habitability_branch_wide_marginal(temp) ==
    IF RLe(R(-20, 1), temp) /\ RLe(temp, R(50, 1))
    THEN RSub(One, RDiv(RAbs(RSub(temp, R(15, 1))), R(65, 1)))
    ELSE IF RLe(R(-100, 1), temp) /\ RLt(temp, R(-20, 1))
    THEN RSub(R(3, 5), RDiv(RSub(RAbs(temp), R(20, 1)), R(150, 1)))
    ELSE R(3, 10)

\* mutant: -20 C is left to the marginal band (-20 < temp)
habitability_branch_strict(temp) ==
    IF RLt(R(-20, 1), temp) /\ RLe(temp, R(50, 1))
    THEN RSub(One, RDiv(RAbs(RSub(temp, R(15, 1))), R(65, 1)))
    ELSE IF RLe(R(-50, 1), temp) /\ RLe(temp, R(-20, 1))
    THEN RSub(R(3, 5), RDiv(RSub(RAbs(temp), R(20, 1)), R(150, 1)))
    ELSE R(3, 10)

\* mutant: the liquid-water score decays over 25 degrees, not 65
habitability_branch_steep(temp) ==
    IF RLe(R(-20, 1), temp) /\ RLe(temp, R(50, 1))
    THEN RSub(One, RDiv(RAbs(RSub(temp, R(15, 1))), R(25, 1)))
    ELSE IF RLe(R(-50, 1), temp) /\ RLt(temp, R(-20, 1))
    THEN RSub(R(3, 5), RDiv(RSub(RAbs(temp), R(20, 1)), R(150, 1)))
    ELSE R(3, 10)

\* the if / elif / else of lines 633-638: the score before the final clamp
habitability_branch(temp) ==
    IF RLe(R(-20, 1), temp) /\ RLe(temp, R(50, 1))
    THEN RSub(One, RDiv(RAbs(RSub(temp, R(15, 1))), R(65, 1)))
    ELSE IF RLe(R(-50, 1), temp) /\ RLt(temp, R(-20, 1))
    THEN RSub(R(3, 5), RDiv(RSub(RAbs(temp), R(20, 1)), R(150, 1)))
    ELSE R(3, 10)

\* mutant: the linear decay alone, with neither bands nor clamp
habitability_score_linear(temp) ==
    RSub(One, RDiv(RAbs(RSub(temp, R(15, 1))), R(65, 1)))

calculate_habitability_score(temp) ==
    PyMax(R(3, 10), PyMin(One, habitability_branch(temp)))

\* temp_c of the habitable planets d, e, f, in the order of the dictionary
\* (lines 28-30)
habitable_temps == <<R(15, 1), R(-22, 1), R(-54, 1)>>

\* the label under a score bar of the dashboard (line 623)
dashboard_label(s) ==
    IF RLt(R(4, 5), s) THEN "Excellent"
    ELSE IF RLt(R(3, 5), s) THEN "Good"
    ELSE "Possible"

\* the "Assessment:" lines of the report template for d, e, f (lines 692-706)
report_assessment == <<"EXCELLENT", "GOOD", "POSSIBLE">>

\* run_habitability_dashboard (lines 187-228): the guard, then
\* _create_habitability_dashboard with the scores of line 576 and the labels
\* of lines 622-625
Habitable_run_habitability_dashboard ==
    /\ activity = "habitable"
    /\ h_drawn' = IF has_data(h_time, h_flux) THEN "run_habitability_dashboard" ELSE ""
    /\ h_labels' = IF has_data(h_time, h_flux)
                   THEN [i \in DOMAIN habitable_temps |->
                            dashboard_label(calculate_habitability_score(habitable_temps[i]))]
                   ELSE h_labels
    /\ UNCHANGED <<h_time, h_flux, h_period, h_phase, hab_temp, hab_branch, hab_score,
                   h_ret, h_report>>
    /\ UNCHANGED <<envvars, svars, kvars, tvars, mvars>>

\* save_report (lines 261-290): the guard, then the report of _generate_report
\* written to trappist_report_<team>.txt
Habitable_save_report ==
    /\ activity = "habitable"
    /\ h_drawn' = IF has_data(h_time, h_flux) THEN "save_report" ELSE ""
    /\ h_report' = IF has_data(h_time, h_flux) THEN report_assessment ELSE h_report
    /\ UNCHANGED <<h_time, h_flux, h_period, h_phase, hab_temp, hab_branch, hab_score,
                   h_ret, h_labels>>
    /\ UNCHANGED <<envvars, svars, kvars, tvars, mvars>>

\* a call of _calculate_habitability_score (one per behaviour)
CalculateHabitabilityScore(temp) ==
    /\ activity = "habscore"
    /\ IsNaN(hab_temp)
    /\ hab_temp' = temp
    /\ hab_branch' = habitability_branch(temp)
    /\ hab_score' = calculate_habitability_score(temp)
    /\ UNCHANGED <<h_time, h_flux, h_period, h_phase, h_ret, h_drawn, h_labels, h_report>>
    /\ UNCHANGED <<envvars, svars, kvars, tvars, mvars>>

---------------------------------------------------------------------------
(* The state after construction *)

\* the flux column of the TRAPPIST-1 files: a dip of 0.5 % while planet b
\* (period 1.51 days) is in front of the star
DipFlux(time) ==
    [i \in DOMAIN time |->
        IF RLt(R(9, 20), fold_one(time[i], R(151, 100)))
              /\ RLt(fold_one(time[i], R(151, 100)), R(11, 20))
        THEN R(199, 200) ELSE One]

\* the contents of the data file on disk: <<time column, flux column>>; a
\* file TRAPPISTMission.load_data can read has two rows or more (np.loadtxt
\* gives a 1-D array for fewer and data[:, 0] raises before line 58 assigns)
FileFor(act) ==
    CASE act = "fit" ->
            UNION {IncSeqs(KeplerTimes, n) \X [1..n -> FluxValues] : n \in 2..MaxLen}
      [] act = "model" ->
            {<<t, [i \in DOMAIN t |-> One]>> :
                t \in UNION {IncSeqs(TimeGrid, n) : n \in 1..(MaxLen - 1)}
                      \cup {CycleTimes(c) : c \in 1..MaxCycles}}
      [] act = "detective" ->
            {<<t, DipFlux(t)>> :
                t \in UNION {IncSeqs(MissionTimes, n) : n \in 2..MaxLen}}
      [] act = "habitable" ->
            {<<t, DipFlux(t)>> : t \in UNION {IncSeqs(MissionTimes, n) : n \in 0..(MaxLen - 1)}}
      [] OTHER -> {<<(<<>>), (<<>>)>>}

InitOf(act, files) ==
    /\ activity = act
    /\ \E file \in files :
        /\ file_time = file[1]
        /\ file_flux = file[2]
    /\ k_widget = FALSE
    /\ k_time = <<>>
    /\ k_flux = <<>>
    /\ planet_size = NaN
    /\ orbital_period = NaN
    /\ orbital_speed = NaN
    /\ model_flux = <<>>
    /\ rms_error = NaN
    /\ score = NaN
    /\ tm_args = <<>>
    /\ tm_flux = <<>>
    /\ m_none = TRUE
    /\ m_time = <<>>
    /\ m_flux = <<>>
    /\ m_period = NaN
    /\ m_phase = <<>>
    /\ m_mask = <<>>
    /\ m_ret = ""
    /\ m_drawn = ""
    /\ sc_args = <<>>
    /\ sc_error = ""
    /\ sc_rms = NaN
    /\ sc_score = NaN
    \* __init__ of TRAPPISTHabitable loads the default file, or leaves two
    \* empty arrays when it is missing (line 39)
    /\ \E found \in (IF act = "habitable" THEN BOOLEAN ELSE {FALSE}) :
        /\ h_time = IF found THEN file_time ELSE <<>>
        /\ h_flux = IF found THEN file_flux ELSE <<>>
    /\ h_period = NaN
    /\ h_phase = <<>>
    /\ hab_temp = NaN
    /\ hab_branch = NaN
    /\ hab_score = NaN
    /\ h_ret = ""
    /\ h_drawn = ""
    /\ h_labels = <<>>
    /\ h_report = <<>>

Init == \E act \in Activities : InitOf(act, FileFor(act))

Next ==
    \/ InteractiveFit
    \/ \E size \in SizeSlider, period \in PeriodSlider, speed \in SpeedSlider :
        UpdateFit(size, period, speed)
    \/ \E size \in ModelSizes, period \in ModelPeriods, width \in ModelWidths :
        TransitModel(size, period, width)
    \/ \E time \in ScoreTimes, flux \in ScoreFluxes : ScoreFit(time, flux)
    \/ Mission_load_data
    \/ Mission_load_data_not_found
    \/ \E period \in FoldPeriods : Mission_fold_at_period(period)
    \/ Mission_step1_view_data
    \/ Mission_step2_fold_first_planet
    \/ Mission_step3_remove_planet
    \/ Mission_step4_find_second_planet
    \/ \E found \in BOOLEAN : Habitable_load_data(found)
    \/ \E period \in FoldPeriods : Habitable_fold_at_period(period)
    \/ Habitable_visualize_data
    \/ Habitable_find_habitable_periods
    \/ Habitable_run_habitability_dashboard
    \/ Habitable_save_report
    \/ \E temp \in Temperatures : CalculateHabitabilityScore(temp)

Spec == Init /\ [][Next]_vars

\* TRAPPISTMission with the fold computed in floating point
InitFP ==
    InitOf("detective",
           {<<t, DipFlux(t)>> : t \in UNION {IncSeqs(FpTimes, n) : n \in 2..MaxLen}})

NextFP ==
    \/ Mission_load_data
    \/ Mission_load_data_not_found
    \/ \E period \in FpPeriods : Mission_fold_at_period_fp(period)

SpecFP == InitFP /\ [][NextFP]_vars


---------------------------------------------------------------------------
(* Properties of the transit model and of the fold *)

\* the values of flux lie in [1 - size^2, 1]
FluxWithin(flux, size) ==
    \A i \in DOMAIN flux :
        /\ RLe(RSub(One, RMul(size, size)), flux[i])
        /\ RLe(flux[i], One)

\* a direct call with 0 < radius ratio < 1, period > 0 and width factor > 0
ValidModelCall ==
    /\ Len(tm_args) = 4
    /\ RLt(Zero, tm_args[2]) /\ RLt(tm_args[2], One)
    /\ RLt(Zero, tm_args[3])
    /\ RLt(Zero, tm_args[4])

\* C1: for a radius ratio in (0, 1), a period > 0 and a width factor > 0,
\* every value _transit_model returns lies in [1 - ratio^2, 1]; so does every
\* value of the model drawn by update_fit, whose sliders are in that range.
C1_FluxWithinDepth ==
    /\ ValidModelCall => FluxWithin(tm_flux, tm_args[2])
    /\ k_widget => FluxWithin(model_flux, planet_size)

\* a call that returned a flat-bottom sample and a sample on the tapered edge
C1_Witness ==
    /\ ValidModelCall
    /\ \E i \in DOMAIN tm_flux : tm_flux[i] = RSub(One, RMul(tm_args[2], tm_args[2]))
    /\ \E i \in DOMAIN tm_flux :
        /\ RLt(RSub(One, RMul(tm_args[2], tm_args[2])), tm_flux[i])
        /\ RLt(tm_flux[i], One)

\* the time array moved by k whole periods
Shifted(time, k, period) ==
    [i \in DOMAIN time |-> RAdd(time[i], RMul(<<k, 1>>, period))]

\* C2: for a period > 0 and every integer k, folding the times t + k * period
\* gives the phases that folding t gave, in both fold_at_period methods and
\* in the fold _transit_model starts with, whose flux is then the same too.
\* (A failed reload empties the data of TRAPPISTHabitable after a fold; the
\* phases are compared with the data they were folded from.)
C2_FoldShiftInvariant ==
    /\ (m_phase # <<>> /\ RLt(Zero, m_period)) =>
           \A k \in (-MaxShift)..MaxShift :
               fold(Shifted(m_time, k, m_period), m_period) = m_phase
    /\ (h_phase # <<>> /\ has_data(h_time, h_flux) /\ RLt(Zero, h_period)) =>
           \A k \in (-MaxShift)..MaxShift :
               fold(Shifted(h_time, k, h_period), h_period) = h_phase
    /\ ValidModelCall =>
           \A k \in (-MaxShift)..MaxShift :
               /\ fold(Shifted(tm_args[1], k, tm_args[3]), tm_args[3])
                      = fold(tm_args[1], tm_args[3])
               /\ transit_model(Shifted(tm_args[1], k, tm_args[3]),
                                tm_args[2], tm_args[3], tm_args[4]) = tm_flux

\* a fold of a series with a time before 0 and a time after it, so that the
\* shifts carry samples across 0
C2_Witness ==
    /\ m_phase # <<>>
    /\ RLt(Zero, m_period)
    /\ \E i \in DOMAIN m_time : RLt(m_time[i], Zero) /\ m_phase[i] # Zero
    /\ \E i \in DOMAIN m_time : RLt(Zero, m_time[i])

\* every phase is in [0, 1)
PhaseInUnit(phase) ==
    \A i \in DOMAIN phase : RLe(Zero, phase[i]) /\ RLt(phase[i], One)

\* C3: for a period > 0, every phase fold_at_period computes is in [0, 1),
\* for negative times too.
C3_PhaseInUnitInterval ==
    /\ (m_phase # <<>> /\ RLt(Zero, m_period)) => PhaseInUnit(m_phase)
    /\ (h_phase # <<>> /\ RLt(Zero, h_period)) => PhaseInUnit(h_phase)

---------------------------------------------------------------------------
(* Properties of the habitability score *)

\* _calculate_habitability_score has returned
Scored == ~IsNaN(hab_temp)

\* C4: the score is at least 0.3 and at most 1.0 for every temperature.
C4_ScoreInRange ==
    Scored => RLe(R(3, 10), hab_score) /\ RLe(hab_score, One)

\* scores at both ends of the range have been returned: the floor, far from
\* the bands, is this state; the peak is C8's
C4_Witness ==
    /\ Scored
    /\ RLt(R(50, 1), hab_temp)
    /\ hab_score = R(3, 10)
    /\ hab_branch = hab_score

\* C8: at 15 C the score is exactly 1.0.
C8_PeakAtFifteen ==
    (Scored /\ hab_temp = R(15, 1)) => hab_score = One

C8_Witness ==
    /\ hab_temp = R(15, 1)
    /\ hab_score = One

\* C9: above 50 C or below -50 C, +1000 and -1000 included, the score is
\* exactly 0.3.
C9_FloorOutsideBands ==
    (Scored /\ (RLt(R(50, 1), hab_temp) \/ RLt(hab_temp, R(-50, 1)))) =>
        hab_score = R(3, 10)

\* the score of a temperature just below the marginal band
C9_Witness ==
    /\ Scored
    /\ RLt(hab_temp, R(-50, 1))
    /\ RLt(R(-60, 1), hab_temp)
    /\ hab_score = R(3, 10)

\* the two bands and their formulas, as the specification words them
InLiquidBand(temp) == RLe(R(-20, 1), temp) /\ RLe(temp, R(50, 1))

InMarginalBand(temp) == RLe(R(-50, 1), temp) /\ RLt(temp, R(-20, 1))

ClampedToRange(x) ==
    IF RLt(x, R(3, 10)) THEN R(3, 10) ELSE IF RLt(One, x) THEN One ELSE x

LiquidFormula(temp) == RSub(One, RDiv(RAbs(RSub(temp, R(15, 1))), R(65, 1)))

MarginalFormula(temp) == RSub(R(3, 5), RDiv(RSub(RAbs(temp), R(20, 1)), R(150, 1)))

\* C10: in [-20, 50] the score is 1 - |temp - 15| / 65 clamped to [0.3, 1]; in
\* [-50, -20) it is 0.6 - (|temp| - 20) / 150 clamped; no temperature is in
\* both bands, -20 scores by the first formula and -50 by the second.
C10_BandFormulas ==
    Scored =>
        /\ ~(InLiquidBand(hab_temp) /\ InMarginalBand(hab_temp))
        /\ InLiquidBand(hab_temp) => hab_score = ClampedToRange(LiquidFormula(hab_temp))
        /\ InMarginalBand(hab_temp) => hab_score = ClampedToRange(MarginalFormula(hab_temp))
        /\ hab_temp = R(-20, 1) => hab_score = R(6, 13)
        /\ hab_temp = R(-50, 1) => hab_score = R(2, 5)

\* the score of the temperature the two bands meet at
C10_Witness ==
    /\ hab_temp = R(-20, 1)
    /\ hab_score = R(6, 13)

---------------------------------------------------------------------------
(* Properties of the fit score *)

\* C5: when the model equals the data sample for sample, the RMS error is 0
\* and the score is 100; and so scores any loaded flux against itself.
C5_SelfFitPerfect ==
    k_widget =>
        /\ model_flux = k_flux => (rms_error = Zero /\ score = R(100, 1))
        /\ fit_rms(k_flux, k_flux) = Zero
        /\ fit_score(fit_rms(k_flux, k_flux)) = R(100, 1)

\* the sliders reproduce a light curve that has a dip
C5_Witness ==
    /\ k_widget
    /\ model_flux = k_flux
    /\ \E i \in DOMAIN k_flux : RLt(k_flux[i], One)
    /\ score = R(100, 1)

\* the uniform offsets, and the score of x against x + d
Offsets == {R(k, 3200) : k \in (-MaxOffset)..MaxOffset}

OffsetScore(x, d) == fit_score(fit_rms(x, [i \in DOMAIN x |-> RAdd(x[i], d)]))

\* the widget has just been built on the loaded data
FreshWidget ==
    /\ k_widget
    /\ planet_size = R(1, 20) /\ orbital_period = R(260, 1) /\ orbital_speed = R(4, 1)

\* C6: for a loaded flux x, the score of x against x + d does not increase as
\* |d| grows, and the score does not increase as the RMS error grows.  (x does
\* not change once loaded, so it is evaluated when the widget is fresh.)
C6_ScoreMonotone ==
    FreshWidget =>
        LET scored == {<<d, OffsetScore(k_flux, d), fit_score(RAbs(d))>> : d \in Offsets}
        IN  \A p1, p2 \in scored :
                RLe(RAbs(p1[1]), RAbs(p2[1])) =>
                    /\ RLe(p2[2], p1[2])
                    /\ RLe(p2[3], p1[3])

\* a loaded flux whose score falls strictly from offset 0 to the smallest
\* offset and again to the largest
C6_Witness ==
    /\ FreshWidget
    /\ RLt(OffsetScore(k_flux, R(1, 3200)), OffsetScore(k_flux, Zero))
    /\ RLt(OffsetScore(k_flux, R(-MaxOffset, 3200)), OffsetScore(k_flux, R(1, 3200)))

\* C7: the RMS error is never negative and the score is in [0, 100].
C7_RmsAndScoreBounds ==
    k_widget =>
        /\ RLe(Zero, rms_error)
        /\ RLe(Zero, score)
        /\ RLe(score, R(100, 1))

\* a fit whose data lie below the model, with an error and a score strictly
\* inside their ranges
C7_Witness ==
    /\ k_widget
    /\ \A i \in DOMAIN k_flux : RLe(k_flux[i], model_flux[i])
    /\ RLt(Zero, rms_error)
    /\ RLt(Zero, score)
    /\ RLt(score, R(100, 1))

---------------------------------------------------------------------------
(* The transit model against the trapezoid reference *)

\* the largest integer not above the rational x
RFloor(x) == x[1] \div x[2]

\* the reference, written from the description of the shape: the phase by
\* floored division, then the three regions
RefPhase(t, period) ==
    RDiv(RSub(t, RMul(period, <<RFloor(RDiv(t, period)), 1>>)), period)

RefFlux(t, radiusRatio, period, widthFactor) ==
    LET distance == RAbs(RSub(RefPhase(t, period), R(1, 2)))
        depth == RMul(radiusRatio, radiusRatio)
        halfDuration == RMul(R(1, 10), RDiv(widthFactor, R(10, 1)))
        flat == RMul(R(3, 5), halfDuration)
        edgeFraction == RDiv(RSub(distance, flat), RMul(R(2, 5), halfDuration))
    IN  IF RLt(distance, flat) THEN RSub(One, depth)
        ELSE IF RLt(distance, halfDuration)
        THEN RSub(One, RMul(depth, RSub(One, RMul(edgeFraction, edgeFraction))))
        ELSE One

\* a direct call with a period > 0 has returned
PositivePeriodCall == Len(tm_args) = 4 /\ RLt(Zero, tm_args[3])

\* C11: for a period > 0, every value of _transit_model is the trapezoid
\* reference of its sample: 1 - depth within 0.6 of the half duration of the
\* centre, the quadratic taper from there to the half duration, 1 elsewhere.
C11_MatchesTrapezoid ==
    /\ PositivePeriodCall =>
           \A i \in DOMAIN tm_flux :
               tm_flux[i] = RefFlux(tm_args[1][i], tm_args[2], tm_args[3], tm_args[4])
    /\ k_widget =>
           \A i \in DOMAIN model_flux :
               model_flux[i] = RefFlux(k_time[i], planet_size, orbital_period, orbital_speed)

\* a call that returned a sample on the taper and a sample out of transit,
\* for a time before 0
C11_Witness ==
    /\ PositivePeriodCall
    /\ RLt(Zero, tm_args[2])
    /\ \E i \in DOMAIN tm_flux :
        /\ RLt(tm_args[1][i], Zero)
        /\ RLt(RSub(One, RMul(tm_args[2], tm_args[2])), tm_flux[i])
        /\ RLt(tm_flux[i], One)
    /\ \E i \in DOMAIN tm_flux : tm_flux[i] = One

\* distance of sample i of the returned call from the transit centre (line 79)
CallDistance(i) == RAbs(RSub(fold_one(tm_args[1][i], tm_args[3]), R(1, 2)))

CallDuration == transit_duration_of(tm_args[4])

\* C12: with a radius ratio of 0, a period > 0 and any width factor, every
\* returned value is 1.
C12_ZeroRatioFlat ==
    (PositivePeriodCall /\ tm_args[2] = Zero) =>
        \A i \in DOMAIN tm_flux : tm_flux[i] = One

\* a call with ratio 0 that has a sample inside the transit window
C12_Witness ==
    /\ PositivePeriodCall
    /\ tm_args[2] = Zero
    /\ \E i \in DOMAIN tm_flux : RLt(CallDistance(i), RMul(CallDuration, R(3, 5)))
    /\ \A i \in DOMAIN tm_flux : tm_flux[i] = One

\* sample i of the returned call is in the ingress/egress region
OnEdge(i) ==
    /\ RLe(RMul(CallDuration, R(3, 5)), CallDistance(i))
    /\ RLt(CallDistance(i), CallDuration)

\* the edge fraction is in [0, 1), and the flux at edge fraction 0 is that of
\* the flat bottom
EdgeJoinsBottom(i) ==
    LET e == edge_distance_of(CallDistance(i), CallDuration)
    IN  /\ RLe(Zero, e) /\ RLt(e, One)
        /\ RLe(RSub(One, transit_depth(tm_args[2])), tm_flux[i])
        /\ e = Zero => tm_flux[i] = RSub(One, transit_depth(tm_args[2]))

---------------------------------------------------------------------------
(* Invalid parameters and inputs *)

\* a direct call has returned a flux array for each of its samples
ModelReturned == Len(tm_args) = 4 /\ Len(tm_flux) = Len(tm_args[1])

\* C14: _transit_model returns no flux array for a period <= 0: every call
\* that returned had a period > 0.
C14_NonPositivePeriodRejected ==
    ModelReturned => RLt(Zero, tm_args[3])

\* C15: fold_at_period computes no phase array for a period <= 0, in either
\* class: every phase array was computed for a period > 0.
C15_FoldRejectsNonPositivePeriod ==
    /\ m_phase # <<>> => RLt(Zero, m_period)
    /\ h_phase # <<>> => RLt(Zero, h_period)

\* interactive_fit has been called on arrays of the caller
ScoreCalled == Len(sc_args) = 2

\* the call produced an RMS error and a score
FitResultProduced == ScoreCalled /\ sc_error = ""

\* C16: when the observed flux and the model differ in length (the model has
\* the length of the time array), length 1 included, the scorer raises an
\* error and produces no result.
C16_ShapeMismatchRejected ==
    (ScoreCalled /\ Len(sc_args[1]) # Len(sc_args[2])) => ~FitResultProduced

\* C17: on a zero-length time or flux array the scorer raises an error of its
\* own, which is not the shape error; it produces no result.
C17_EmptyInputRejected ==
    (ScoreCalled /\ (Len(sc_args[1]) = 0 \/ Len(sc_args[2]) = 0)) =>
        /\ ~FitResultProduced
        /\ sc_error # "ValueError"

\* C18: _transit_model returns no flux array for a width factor <= 0: every
\* call that returned had a width factor > 0.
C18_NonPositiveWidthRejected ==
    ModelReturned => RLt(Zero, tm_args[4])

---------------------------------------------------------------------------
(* End to end *)

\* the least value of a non-empty array
MinOf(flux) ==
    CHOOSE m \in {flux[i] : i \in DOMAIN flux} :
        \A i \in DOMAIN flux : RLe(m, flux[i])

\* the model of radius ratio 0.1, period 4.05 and width factor 10 has been
\* computed on the quarter-period series
EndToEndCall ==
    /\ ModelReturned
    /\ \E c \in 1..MaxCycles : tm_args[1] = CycleTimes(c)
    /\ tm_args[2] = R(1, 10)
    /\ tm_args[3] = R(81, 20)
    /\ tm_args[4] = R(10, 1)

\* C19: on the quarter-period series the samples of least flux are exactly
\* those whose phase at 4.05 days is 0.5; folded at 3.0 days those samples are
\* not all at phase 0.5: none is, and no two of them share a phase.
C19_EndToEnd ==
    EndToEndCall =>
        LET time == tm_args[1]
            lo == MinOf(tm_flux)
            at405 == fold(time, R(81, 20))
            at3 == fold(time, R(3, 1))
        IN  /\ RLt(lo, One)
            /\ \A i \in DOMAIN time : (tm_flux[i] = lo) <=> (at405[i] = R(1, 2))
            /\ \E i \in DOMAIN time : tm_flux[i] = lo /\ at3[i] # R(1, 2)
            /\ \A i, j \in DOMAIN time :
                   (i # j /\ tm_flux[i] = lo /\ tm_flux[j] = lo) => at3[i] # at3[j]

\* the call on the series of MaxCycles cycles, with a transit in each
C19_Witness ==
    /\ EndToEndCall
    /\ Len(tm_args[1]) = 4 * MaxCycles
    /\ tm_flux[3] = R(99, 100)
    /\ tm_flux[4 * MaxCycles - 1] = R(99, 100)
    /\ tm_flux[1] = One

---------------------------------------------------------------------------
(* Frame *)

---------------------------------------------------------------------------
(* The interactive fit recomputes everything on every slider change *)

\* the score update_fit shows for the widget's arrays and three slider values
ScoreFor(size, period, speed) ==
    fit_score(fit_rms(k_flux, transit_model(k_time, size, period, speed)))

\* C21: after any sequence of slider changes the model flux is the one
\* synthesized from the current (planet_size, orbital_period, orbital_speed),
\* the rms is the one of the data against that model and the displayed score
\* is the score of that rms: nothing is carried over from an earlier call
C21_ScoreOfCurrentSliders ==
    k_widget =>
        /\ model_flux = transit_model(k_time, planet_size, orbital_period, orbital_speed)
        /\ rms_error = fit_rms(k_flux, model_flux)
        /\ score = fit_score(rms_error)

\* two sliders have been moved away from their initial values, and the score
\* shown differs from the score of the initial parameter set
C21_Witness ==
    /\ k_widget
    /\ planet_size # R(1, 20)
    /\ orbital_period # R(260, 1)
    /\ score # ScoreFor(R(1, 20), R(260, 1), R(4, 1))
    /\ score # ScoreFor(R(1, 20), orbital_period, orbital_speed)

---------------------------------------------------------------------------
(* The missions' data: removal, guards, failed loads *)

\* t falls into planet b's transit window: phase at 1.51 days in (0.45, 0.55)
InTransitOfB(t) ==
    /\ RLt(R(9, 20), fold_one(t, R(151, 100)))
    /\ RLt(fold_one(t, R(151, 100)), R(11, 20))

\* C22: after step3_remove_planet has run on loaded data, no sample of the
\* mission's series has its phase at period 1.51 in (0.45, 0.55): planet b's
\* transit points have been taken out of time and flux
C22_FirstPlanetRemoved ==
    m_drawn = "step3_remove_planet" =>
        /\ \A i \in DOMAIN m_time : ~InTransitOfB(m_time[i])
        /\ Len(m_flux) = Len(m_time)

HoldsData(none, time, flux) == ~none /\ Len(time) > 0 /\ Len(flux) > 0

\* C23: in both missions a step in which a command draws a plot, computes a
\* fold or writes a report starts from loaded, non-empty data; a step that
\* starts without such data and is not a load ends with nothing drawn or
\* written, and no step that draws or writes changes time or flux
C23_CommandsNeedData ==
    [][ /\ (m_drawn' # "" \/ (m_phase' # m_phase /\ m_phase' # <<>>)
                         \/ (m_mask' # m_mask /\ m_mask' # <<>>))
            => /\ HoldsData(m_none, m_time, m_flux)
               /\ m_none' = m_none /\ m_time' = m_time /\ m_flux' = m_flux
        /\ (h_drawn' # "" \/ (h_phase' # h_phase /\ h_phase' # <<>>)
                         \/ h_labels' # h_labels \/ h_report' # h_report)
            => /\ HoldsData(FALSE, h_time, h_flux)
               /\ h_time' = h_time /\ h_flux' = h_flux
        /\ (~HoldsData(m_none, m_time, m_flux) /\ m_none' = m_none
                /\ m_time' = m_time /\ m_flux' = m_flux)
            => m_drawn' = "" /\ m_phase' = <<>> /\ m_mask' = <<>>
        /\ (~HoldsData(FALSE, h_time, h_flux) /\ h_time' = h_time /\ h_flux' = h_flux)
            => h_drawn' = "" /\ h_labels' = h_labels /\ h_report' = h_report
    ]_vars

\* the dashboard and the report were produced while data was held; the data
\* was then lost to a failed load and a fold_at_period was refused
C23_Witness ==
    /\ activity = "habitable"
    /\ h_labels # <<>>
    /\ h_report # <<>>
    /\ ~HoldsData(FALSE, h_time, h_flux)
    /\ ~IsNaN(h_period)
    /\ h_phase = <<>>
    /\ h_drawn = ""

\* C24: from a TRAPPISTMission.load_data that returned (None, None) until
\* the next successful load, time and flux stay exactly as they were before
\* the failed call, so that the commands still work on the earlier data
C24_FailedLoadKeepsData ==
    [][ m_ret' = "None, None" =>
            /\ m_none' = m_none
            /\ m_time' = m_time
            /\ m_flux' = m_flux ]_vars

\* data was loaded, a later load failed, and a fold after the failure was
\* computed from the data of the earlier load
C24_Witness ==
    /\ m_ret = "None, None"
    /\ ~m_none
    /\ m_time = file_time
    /\ m_drawn = "fold_at_period"
    /\ m_period = R(151, 100)
    /\ m_phase = fold(file_time, R(151, 100))

\* C25: TRAPPISTHabitable.load_data returns True exactly when the mission
\* holds non-empty data afterwards; after a call that returned False, time
\* and flux are empty arrays whatever was loaded before, and nothing is drawn
\* or written until a later load returns True
C25_FailedLoadDiscardsData ==
    /\ h_ret = "True" =>
            /\ HoldsData(FALSE, h_time, h_flux)
            /\ h_time = file_time
            /\ h_flux = file_flux
    /\ h_ret = "False" =>
            /\ h_time = <<>>
            /\ h_flux = <<>>
            /\ h_drawn = ""

\* data that had been loaded and folded was discarded by a failed load
C25_Witness ==
    /\ h_ret = "False"
    /\ Len(file_time) > 0
    /\ h_time = <<>>
    /\ h_phase # <<>>
    /\ Len(h_phase) = Len(file_time)

---------------------------------------------------------------------------
(* Dashboard labels, monotonicity and the clamp of the habitability score *)

Upper(label) ==
    CASE label = "Excellent" -> "EXCELLENT"
      [] label = "Good" -> "GOOD"
      [] label = "Possible" -> "POSSIBLE"
      [] OTHER -> label

\* C26: for each of the planets d, e, f the label the dashboard puts under
\* its score bar is the assessment the report gives for it
C26_LabelsMatchReport ==
    (h_labels # <<>> /\ h_report # <<>>) =>
        \A i \in DOMAIN h_labels : Upper(h_labels[i]) = h_report[i]

\* C27: the score never rewards moving away from 15 C: no temperature
\* further from 15 on the same side than the scored one has a higher score
C27_MonotoneTowardsFifteen ==
    Scored =>
        \A t \in Temperatures :
            /\ (RLe(t, hab_temp) /\ RLe(hab_temp, R(15, 1)))
                => RLe(calculate_habitability_score(t), hab_score)
            /\ (RLe(R(15, 1), hab_temp) /\ RLe(hab_temp, t))
                => RLe(calculate_habitability_score(t), hab_score)

\* C28: the value of each branch already lies in [0.3, 1.0], so the final
\* max(0.3, min(1.0, score)) returns it unchanged
C28_ClampIsIdentity ==
    Scored =>
        /\ RLe(R(3, 10), hab_branch)
        /\ RLe(hab_branch, One)
        /\ hab_score = hab_branch

\* the lowest value a band formula takes: 0.4 at -50 C, returned as it is
C28_Witness ==
    /\ Scored
    /\ hab_temp = R(-50, 1)
    /\ hab_branch = R(2, 5)
    /\ hab_score = R(2, 5)

====
